---- MODULE Spec2Model ----
(***************************************************************************)
(* State-machine model of twitch-cutter (src/main.py): the webhook intake, *)
(* the trigger loops of main(), the poll-mode VOD locator and the pipeline *)
(* run_pipeline_for_vod with its processed-files ledger.                   *)
(***************************************************************************)
EXTENDS Integers, Sequences, FiniteSets, TLC

(***************************************************************************)
(* Bounds of the model                                                     *)
(***************************************************************************)
MaxClips == 2        \* longest clip list the remote service returns
MaxReqDur == 1       \* longest duration of one exportable-clips request
MaxSize == 2         \* largest file size tracked
MaxAge == 2          \* ages saturate here
MaxEvents == 2       \* HTTP requests received per process run

(***************************************************************************)
(* Settings (scaled values of Settings.from_env)                           *)
(***************************************************************************)
opus_wait_timeout_sec == 2
opus_poll_interval_sec == 1
stable_for_sec == 2
min_bytes == 1

(***************************************************************************)
(* Filesystem: canonical files, and the directory entries of the watch    *)
(* directory.  "la" is a symbolic link to "a", so Path.resolve() is not   *)
(* the identity.                                                           *)
(***************************************************************************)
Files == {"a", "b"}
Entries == {"a", "la", "b"}
DirOrder == <<"la", "a", "b">>
NoPath == "none"

resolve(p) == IF p = "la" THEN "a" ELSE p

VARIABLES
    settings,     \* [trigger_mode, run_once, explicit_vod_file, valid, webhook_token, ..]
    fs,           \* fs[f] = [exists, size, age] for canonical file f
    stateFile,    \* the persisted state file: [kind, files]
    processed,    \* processed["processed_files"], the in-memory list
    pc,           \* position of the main thread
    vod,          \* vod_path of the current run
    stagesRun,    \* stages of the current run that were entered (history)
    clips,        \* result of wait_exportable_clips
    downloaded,   \* result of download_clips: index of the source clip of each file
    uploaded,     \* uploads made in this run: [file, titleOf]
    elapsed,      \* time.time() - started in wait_exportable_clips
    outcome,      \* how the last run ended: "none", "success", "skip", "failed"
    failure,      \* the exception of the last failed run
    runStart,     \* [processed, stateFile] when the current run was invoked (history)
    exit,         \* "running", "ok", "crashed", "config_error"
    event_queue,  \* WebhookHandler.event_queue: sequence of [id, payload]
    put_seq,      \* number of events put on the queue (history: the id of the last)
    taken,        \* ids of the events the loop has dequeued, in order (history)
    lastEvent,    \* payload in main(): the event the loop dequeued last (history)
    lastReq,      \* the last request served: checks passed, status, enqueued (history)
    nReq,         \* number of requests served
    serverUp,     \* the webhook listener is running
    handled,      \* handled in main()
    seen,         \* seen in wait_for_finished_vod
    candidates,   \* candidates of the poll cycle not yet looked at
    size1,        \* size1 in is_file_stable
    sleepLeft     \* what is left of the sleep of is_file_stable

pipeVars == <<vod, stagesRun, clips, downloaded, uploaded, elapsed,
              outcome, failure, runStart>>
hookVars == <<event_queue, put_seq, taken, lastEvent, lastReq, nReq, serverUp, handled>>
pollVars == <<seen, candidates, size1, sleepLeft>>
otherVars == <<hookVars, pollVars>>
vars == <<settings, fs, stateFile, processed, pc, exit, pipeVars, otherVars>>

\* Path.exists() and Path.is_file(); "pl" is the recorder's playlist file
exists(p) ==
    IF p \in Entries THEN fs[resolve(p)].exists ELSE p = "pl"

\* p.suffix.lower() in settings.vod_extensions
is_media(p) == p \in Entries

\* p.stat().st_mtime as an age, and p.stat().st_size (stat follows the link)
age_of(p) == fs[resolve(p)].age
size_of(p) == fs[resolve(p)].size

\* the first element of S in directory order
FirstInOrder(S) ==
    DirOrder[CHOOSE i \in 1..Len(DirOrder) :
                /\ DirOrder[i] \in S
                /\ \A j \in 1..(i - 1) : DirOrder[j] \notin S]

\* sorted(S, key=st_mtime, reverse=True)[0]: the sort is stable
newest(S) == FirstInOrder({e \in S : \A o \in S : age_of(e) <= age_of(o)})

\* sorted(S, key=st_size, reverse=True)[0]
largest(S) == FirstInOrder({e \in S : \A o \in S : size_of(e) >= size_of(o)})

ClipKinds == [url : BOOLEAN]
ClipLists == UNION {[1..n -> ClipKinds] : n \in 1..MaxClips}

StateFiles ==
    {[kind |-> "absent", files |-> <<>>], [kind |-> "corrupt", files |-> <<>>]}
    \cup {[kind |-> "ok", files |-> s] :
             s \in {<<>>, <<"a">>}}

\* load_processed
load_processed(sf) == IF sf.kind = "ok" THEN sf.files ELSE <<>>

\* set(processed.get("processed_files", []))
seen_of(p) == {p[i] : i \in 1..Len(p)}

(***************************************************************************)
(* run_pipeline_for_vod                                                    *)
(***************************************************************************)
NetworkStages == {"Publish", "SubmitClipJob", "AwaitClips", "DownloadClips", "UploadAll"}

\* the call run_pipeline_for_vod(settings, processed, p)
BeginRun(p) ==
    /\ pc' = "validate"
    /\ vod' = p
    /\ stagesRun' = {}
    /\ clips' = <<>>
    /\ downloaded' = <<>>
    /\ uploaded' = <<>>
    /\ elapsed' = 0
    /\ outcome' = "none"
    /\ failure' = "none"
    /\ runStart' = [processed |-> processed', stateFile |-> stateFile']

\* the frame of run_pipeline_for_vod is gone once main() has handled its end
EndRun ==
    /\ vod' = NoPath
    /\ stagesRun' = {}
    /\ clips' = <<>>
    /\ downloaded' = <<>>
    /\ uploaded' = <<>>
    /\ elapsed' = 0
    /\ outcome' = "none"
    /\ failure' = "none"
    /\ runStart' = [processed |-> processed', stateFile |-> stateFile']

\* an exception leaves run_pipeline_for_vod
Raise(exc) ==
    /\ pc' = "raised"
    /\ outcome' = "failed"
    /\ failure' = exc

\* run_pipeline_for_vod returns
Return(how) ==
    /\ pc' = "returned"
    /\ outcome' = how
    /\ failure' = "none"

\* variant: the path is compared as given, without resolve()
AlreadyProcessedRaw(p, proc) == p \in seen_of(proc)

\* str(vod_path.resolve()) in seen
AlreadyProcessed(p, proc) == resolve(p) \in seen_of(proc)

\* lines 526-531
Validate ==
    /\ pc = "validate"
    /\ IF ~exists(vod)
         THEN Raise("FileNotFoundError")
         ELSE IF AlreadyProcessed(vod, processed)
                THEN Return("skip")
                ELSE /\ pc' = "publish"
                     /\ UNCHANGED <<outcome, failure>>
    /\ UNCHANGED <<otherVars, settings, fs, stateFile, processed, exit, vod, stagesRun, clips,
                   downloaded, uploaded, elapsed, runStart>>

\* variant: the clip job is not submitted, the wait starts right after Publish
PublishSkipsSubmit ==
    /\ pc = "publish"
    /\ stagesRun' = stagesRun \cup {"Publish"}
    /\ pc' = "await_poll"
    /\ UNCHANGED <<otherVars, settings, fs, stateFile, processed, exit, vod, clips,
                   downloaded, uploaded, elapsed, outcome, failure, runStart>>

\* line 532: publish_vod
Publish ==
    /\ pc = "publish"
    /\ stagesRun' = stagesRun \cup {"Publish"}
    /\ \/ /\ pc' = "submit"
          /\ UNCHANGED <<outcome, failure>>
       \/ Raise("PublishError")
    /\ UNCHANGED <<otherVars, settings, fs, stateFile, processed, exit, vod, clips,
                   downloaded, uploaded, elapsed, runStart>>

\* lines 535-536: create_clip_project
SubmitClipJob ==
    /\ pc = "submit"
    /\ stagesRun' = stagesRun \cup {"SubmitClipJob"}
    /\ \/ /\ pc' = "await_poll"
          /\ elapsed' = 0
                /\ UNCHANGED <<outcome, failure>>
       \/ /\ Raise("SubmitError")
          /\ UNCHANGED elapsed
    /\ UNCHANGED <<otherVars, settings, fs, stateFile, processed, exit, vod, clips,
                   downloaded, uploaded, runStart>>

\* variant: the timeout is never taken
TimedOutNever(e) == FALSE

\* variant: the timeout is taken as soon as it is reached
TimedOutAtLeast(e) == e >= settings.wait_timeout

\* elapsed > self.s.opus_wait_timeout_sec
TimedOut(e) == e > settings.wait_timeout

\* elapsed stops being tracked past the largest value one more poll can reach
ElapsedCap == opus_wait_timeout_sec + opus_poll_interval_sec + MaxReqDur + 1
AddTime(e, d) == IF e + d > ElapsedCap THEN ElapsedCap ELSE e + d

\* one iteration of the loop of wait_exportable_clips, up to the sleep; the
\* request takes d seconds.  elapsed is a local: it is kept only while the loop
\* runs and in the state that raised the timeout; when clips are returned, the
\* time the poll was issued at is kept until DownloadClips.
AwaitPoll ==
    /\ pc = "await_poll"
    /\ stagesRun' = stagesRun \cup {"AwaitClips"}
    /\ \E d \in 0..MaxReqDur :
         \/ /\ Raise("HTTPError")
            /\ elapsed' = 0
            /\ UNCHANGED clips
         \/ \E cl \in ClipLists :
              /\ clips' = cl
              /\ UNCHANGED elapsed
              /\ pc' = "download"
              /\ UNCHANGED <<outcome, failure>>
         \/ /\ UNCHANGED clips
            /\ elapsed' = AddTime(elapsed, d)
            /\ IF TimedOut(elapsed')
                 THEN Raise("TimeoutError")
                 ELSE /\ pc' = "await_sleep"
                      /\ UNCHANGED <<outcome, failure>>
    /\ UNCHANGED <<otherVars, settings, fs, stateFile, processed, exit, vod,
                   downloaded, uploaded, runStart>>

\* line 262: time.sleep(opus_poll_interval_sec)
AwaitSleep ==
    /\ pc = "await_sleep"
    /\ elapsed' = AddTime(elapsed, opus_poll_interval_sec)
    /\ pc' = "await_poll"
    /\ UNCHANGED <<otherVars, settings, fs, stateFile, processed, exit, vod, stagesRun, clips,
                   downloaded, uploaded, outcome, failure, runStart>>

\* download_clips: the indices of the clips that have a uriForPreview
WithUrl(cl) == SelectSeq([i \in 1..Len(cl) |-> i], LAMBDA i : cl[i].url)

\* variant: the VOD is recorded as processed once its clips are downloaded
DownloadClipsRecording ==
    /\ pc = "download"
    /\ stagesRun' = stagesRun \cup {"DownloadClips"}
    /\ downloaded' = WithUrl(clips)
    /\ processed' = Append(processed, resolve(vod))
    /\ pc' = "uploader"
    /\ elapsed' = 0
    /\ UNCHANGED <<otherVars, settings, fs, stateFile, exit, vod, clips,
                   uploaded, outcome, failure, runStart>>

\* line 543: download_clips
DownloadClips ==
    /\ pc = "download"
    /\ stagesRun' = stagesRun \cup {"DownloadClips"}
    /\ \/ /\ downloaded' = WithUrl(clips)
          /\ pc' = "uploader"
          /\ UNCHANGED <<outcome, failure>>
       \/ /\ Raise("DownloadError")
          /\ UNCHANGED downloaded
    /\ elapsed' = 0
    /\ UNCHANGED <<otherVars, settings, fs, stateFile, processed, exit, vod, clips,
                   uploaded, runStart>>

\* line 547: YouTubeUploader(settings)
UploaderInit ==
    /\ pc = "uploader"
    /\ stagesRun' = stagesRun \cup {"UploadAll"}
    /\ \/ /\ pc' = "upload"
          /\ UNCHANGED <<outcome, failure>>
       \/ Raise("AuthError")
    /\ UNCHANGED <<otherVars, settings, fs, stateFile, processed, exit, vod, clips,
                   downloaded, uploaded, elapsed, runStart>>

\* line 550: clip_info = clips[idx - 1] if idx - 1 < len(clips) else {}
ClipInfoIndex(idx, cl) == IF idx - 1 < Len(cl) THEN idx ELSE 0

\* variant: a failed upload is noted and the loop goes on with the next file
UploadAllGoesOn ==
    /\ pc = "upload"
    /\ IF Len(uploaded) < Len(downloaded)
         THEN LET idx == Len(uploaded) + 1 IN
              \/ /\ uploaded' = Append(uploaded,
                        [file |-> downloaded[idx], info |-> ClipInfoIndex(idx, clips)])
                 /\ UNCHANGED <<pc, outcome, failure>>
              \/ /\ uploaded' = Append(uploaded, [file |-> 0, info |-> 0])
                 /\ failure' = "UploadError"
                 /\ UNCHANGED <<pc, outcome>>
         ELSE /\ pc' = "commit"
              /\ UNCHANGED <<uploaded, outcome, failure>>
    /\ UNCHANGED <<otherVars, settings, fs, stateFile, processed, exit, vod, stagesRun, clips,
                   downloaded, elapsed, runStart>>

\* lines 549-553: one iteration of the upload loop, or its end
UploadAll ==
    /\ pc = "upload"
    /\ IF Len(uploaded) < Len(downloaded)
         THEN LET idx == Len(uploaded) + 1 IN
              \/ /\ uploaded' = Append(uploaded,
                        [file |-> downloaded[idx], info |-> ClipInfoIndex(idx, clips)])
                 /\ UNCHANGED <<pc, outcome, failure>>
              \/ /\ Raise("UploadError")
                 /\ UNCHANGED uploaded
         ELSE /\ pc' = "commit"
              /\ UNCHANGED <<uploaded, outcome, failure>>
    /\ UNCHANGED <<otherVars, settings, fs, stateFile, processed, exit, vod, stagesRun, clips,
                   downloaded, elapsed, runStart>>

\* variant: the path is appended as given, without resolve()
AppendProcessedRaw(proc, p) == Append(proc, p)

\* lines 555-556
AppendProcessed(proc, p) == Append(proc, resolve(p))

\* variant: the file is written before the new path is appended
save_processed_stale(state) ==
    [kind |-> "ok", files |-> SubSeq(state, 1, Len(state) - 1)]

\* save_processed: what the state file holds after a write of state
save_processed(state) == [kind |-> "ok", files |-> state]

\* variant: a run that uploaded nothing returns without recording the VOD
CommitUnlessEmpty ==
    /\ pc = "commit"
    /\ IF uploaded = <<>>
         THEN /\ Return("success")
              /\ UNCHANGED <<processed, stateFile>>
         ELSE /\ processed' = AppendProcessed(processed, vod)
              /\ stateFile' = save_processed(processed')
              /\ Return("success")
    /\ UNCHANGED <<otherVars, settings, fs, exit, vod, stagesRun, clips,
                   downloaded, uploaded, elapsed, runStart>>

\* lines 555-558
Commit ==
    /\ pc = "commit"
    /\ processed' = AppendProcessed(processed, vod)
    /\ \/ /\ stateFile' = save_processed(processed')
          /\ Return("success")
       \/ /\ stateFile' \in {stateFile, [kind |-> "corrupt", files |-> <<>>]}
          /\ Raise("OSError")
    /\ UNCHANGED <<otherVars, settings, fs, exit, vod, stagesRun, clips,
                   downloaded, uploaded, elapsed, runStart>>

PipelineStep ==
    \/ Validate
    \/ Publish
    \/ SubmitClipJob
    \/ AwaitPoll
    \/ AwaitSleep
    \/ DownloadClips
    \/ UploaderInit
    \/ UploadAll
    \/ Commit

(***************************************************************************)
(* Webhook intake: WebhookHandler.do_POST                                  *)
(***************************************************************************)
\* a path as the recorder reports it: a root prefix and the rest
RawPath(root, name) == [root |-> root, name |-> name]

Payload(action, direct, basename) ==
    [action |-> action, direct |-> direct, basename |-> basename]

\* json.loads(b"{}")
EmptyObject == Payload("", <<>>, "")

Body(kind, obj) == [kind |-> kind, obj |-> obj]
Request(path, token, body) == [path |-> path, token |-> token, body |-> body]

\* what is recorded of a served request: the checks it passed and the answer
Served(path_ok, token_ok, parse_ok, status, enqueued) ==
    [path_ok |-> path_ok, token_ok |-> token_ok, parse_ok |-> parse_ok,
     status |-> status, enqueued |-> enqueued]
NoRequest == Served(FALSE, FALSE, FALSE, 0, FALSE)

webhook_path == "/webhook/livestreamdvr"

\* variant: a request without a body is taken as invalid JSON
ParseBodyStrict(body) ==
    CASE body.kind = "nolength" -> [ok |-> FALSE, dict |-> FALSE, obj |-> EmptyObject]
      [] body.kind = "garbage" -> [ok |-> FALSE, dict |-> FALSE, obj |-> EmptyObject]
      [] body.kind = "nonobject" -> [ok |-> TRUE, dict |-> FALSE, obj |-> EmptyObject]
      [] OTHER -> [ok |-> TRUE, dict |-> TRUE, obj |-> body.obj]

\* lines 656-666: [ok, value] of json.loads over the bytes read
ParseBody(body) ==
    CASE body.kind = "nolength" -> [ok |-> TRUE, dict |-> TRUE, obj |-> EmptyObject]
      [] body.kind = "garbage" -> [ok |-> FALSE, dict |-> FALSE, obj |-> EmptyObject]
      [] body.kind = "nonobject" -> [ok |-> TRUE, dict |-> FALSE, obj |-> EmptyObject]
      [] OTHER -> [ok |-> TRUE, dict |-> TRUE, obj |-> body.obj]

PathOk(s, req) == req.path = webhook_path
TokenOk(s, req) == s.webhook_token = "" \/ req.token = s.webhook_token

\* variant: the token is not checked
StatusOfNoToken(s, req) ==
    IF ~PathOk(s, req) THEN 404
    ELSE IF ~ParseBody(req.body).ok THEN 400
    ELSE IF ~ParseBody(req.body).dict THEN 0
    ELSE 200

\* the status do_POST answers with; 0 when the handler dies without answering
\* (payload.get on a value that is no dict, line 668)
StatusOf(s, req) ==
    IF ~PathOk(s, req) THEN 404
    ELSE IF ~TokenOk(s, req) THEN 401
    ELSE IF ~ParseBody(req.body).ok THEN 400
    ELSE IF ~ParseBody(req.body).dict THEN 0
    ELSE 200

\* variant: a LIFO queue
QueuePutFront(q, ev) == <<ev>> \o q

\* event_queue.put(payload): queue.Queue() has no maxsize, put never blocks
QueuePut(q, ev) == Append(q, ev)

\* event_queue.get()
QueueGet(q) == Head(q)
\* variant: get() leaves the event on the queue
QueueRestKeep(q) == q
QueueRest(q) == Tail(q)

do_POST(req) ==
    /\ serverUp
    /\ nReq < MaxEvents
    /\ nReq' = nReq + 1
    /\ LET status == StatusOf(settings, req)
           rec(enq) == Served(PathOk(settings, req), TokenOk(settings, req),
                              ParseBody(req.body).ok, status, enq)
       IN
         IF status = 200
           THEN /\ put_seq' = put_seq + 1
                /\ event_queue' = QueuePut(event_queue,
                        [id |-> put_seq', payload |-> ParseBody(req.body).obj])
                /\ lastReq' = rec(TRUE)
           ELSE /\ lastReq' = rec(FALSE)
                /\ UNCHANGED <<event_queue, put_seq>>
    /\ UNCHANGED <<settings, fs, stateFile, processed, pc, exit, pipeVars,
                   taken, lastEvent, serverUp, handled, pollVars>>

(***************************************************************************)
(* resolve_vod_from_webhook                                                *)
(***************************************************************************)
LocalRoot == "data"
Outside == "outside"

\* variant: no prefix rewrite
rewrite_none(s, raw) ==
    IF raw.root = LocalRoot /\ raw.name \in Entries \cup {"pl"}
      THEN resolve(raw.name)
      ELSE Outside

\* _rewrite_source_path, for a raw path Path() accepts
rewrite_source_path(s, raw) ==
    LET rewritten ==
          IF s.rewrite_from # "" /\ s.rewrite_to # "" /\ raw.root = s.rewrite_from
            THEN RawPath(s.rewrite_to, raw.name)
            ELSE raw
    IN IF rewritten.root = LocalRoot /\ rewritten.name \in Entries \cup {"pl"}
         THEN resolve(rewritten.name)
         ELSE Outside

\* Path(rewritten).resolve() raises ValueError on an embedded NUL
BadPath(raw) == raw.name = "nul"

\* _largest_media_in_dir(p.parent, extensions)
largest_media_in_dir ==
    LET media == {e \in Entries : exists(e)} IN
    IF media = {} THEN NoPath ELSE largest(media)

Found(p) == [kind |-> "path", path |-> p]
NotFound == [kind |-> "none", path |-> NoPath]
Raised == [kind |-> "raise", path |-> NoPath]

\* basename in p.name: "stem" is a part of every file name of the directory
Contains(name, basename) ==
    \/ name = basename
    \/ name = "la" /\ basename = "a"
    \/ basename = "stem"

\* variant: no preference for files that are not yet processed
ResolveBasenameAnyMatch(payload, proc) ==
    LET basename == payload.basename
        matching == {e \in Entries : exists(e) /\ Contains(e, basename)}
    IN IF basename # "" /\ matching # {} THEN Found(newest(matching)) ELSE NotFound

\* lines 608-623
ResolveBasename(payload, proc) ==
    LET basename == payload.basename
        matching == {e \in Entries : exists(e) /\ Contains(e, basename)}
        unseen == {e \in matching : resolve(e) \notin seen_of(proc)}
        use == IF unseen # {} THEN unseen ELSE matching
    IN IF basename # "" /\ matching # {} THEN Found(newest(use)) ELSE NotFound

\* lines 596-606, from the i-th direct path on
RECURSIVE ResolveDirect(_, _, _, _)
ResolveDirect(s, payload, proc, i) ==
    IF i > Len(payload.direct) THEN ResolveBasename(payload, proc)
    ELSE LET raw == payload.direct[i] IN
         IF BadPath(raw) THEN Raised
         ELSE LET p == rewrite_source_path(s, raw) IN
              IF exists(p) /\ is_media(p) THEN Found(p)
              ELSE IF exists(p) /\ p = "pl" /\ largest_media_in_dir # NoPath
                     THEN Found(largest_media_in_dir)
                     ELSE ResolveDirect(s, payload, proc, i + 1)

\* variant: the action tag is not looked at
resolve_any_action(s, payload, proc) == ResolveDirect(s, payload, proc, 1)

resolve_vod_from_webhook(s, payload, proc) ==
    IF payload.action # "end_download" THEN NotFound
    ELSE ResolveDirect(s, payload, proc, 1)

(***************************************************************************)
(* main()                                                                  *)
(***************************************************************************)
\* lines 689-700
Start ==
    /\ pc = "boot"
    /\ UNCHANGED <<settings, fs, stateFile, event_queue, put_seq, taken, lastEvent,
                   lastReq, nReq, handled, pollVars>>
    /\ IF ~settings.valid
         THEN /\ pc' = "exited"
              /\ exit' = "config_error"
              /\ UNCHANGED <<processed, serverUp, pipeVars>>
         ELSE /\ processed' = load_processed(stateFile)
              /\ UNCHANGED exit
              /\ IF settings.explicit_vod_file # NoPath
                   THEN /\ BeginRun(settings.explicit_vod_file)
                        /\ UNCHANGED serverUp
                   ELSE IF settings.trigger_mode = "webhook"
                     THEN /\ serverUp' = TRUE
                          /\ pc' = "get"
                          /\ UNCHANGED pipeVars
                     ELSE /\ pc' = "locate"
                          /\ UNCHANGED <<serverUp, pipeVars>>

\* lines 694-697: the explicit run returns, or its exception leaves main()
ExplicitEnd ==
    /\ settings.explicit_vod_file # NoPath
    /\ pc \in {"returned", "raised"}
    /\ pc' = "exited"
    /\ exit' = IF pc = "returned" THEN "ok" ELSE "crashed"
    /\ UNCHANGED <<settings, fs, stateFile, processed, pipeVars, otherVars>>

InWebhookLoop ==
    settings.explicit_vod_file = NoPath /\ settings.trigger_mode = "webhook"

\* variant: an event is taken and its run started while a run is in progress
DequeueAnytime ==
    /\ InWebhookLoop
    /\ pc \in {"get", "publish", "submit", "await_poll", "await_sleep"}
    /\ event_queue # <<>>
    /\ event_queue' = Tail(event_queue)
    /\ taken' = Append(taken, Head(event_queue).id)
    /\ lastEvent' = Head(event_queue).payload
    /\ UNCHANGED <<processed, stateFile>>
    /\ BeginRun("a")
    /\ UNCHANGED <<settings, fs, exit, put_seq, lastReq, nReq, serverUp, handled,
                   pollVars>>

\* lines 705-719: get an event, resolve it, start the run if it resolves
Dequeue ==
    /\ InWebhookLoop
    /\ pc = "get"
    /\ event_queue # <<>>
    /\ LET ev == QueueGet(event_queue)
           r == resolve_vod_from_webhook(settings, ev.payload, processed)
       IN /\ event_queue' = QueueRest(event_queue)
          /\ taken' = Append(taken, ev.id)
          /\ lastEvent' = ev.payload
          /\ UNCHANGED <<processed, stateFile>>
          /\ CASE r.kind = "path" ->
                    /\ BeginRun(r.path)
                    /\ UNCHANGED <<exit, serverUp>>
               [] r.kind = "none" ->
                    UNCHANGED <<pc, exit, serverUp, pipeVars>>
               [] OTHER ->
                    \* the exception leaves the while loop: finally, then main() dies
                    /\ pc' = "exited"
                    /\ exit' = "crashed"
                    /\ serverUp' = FALSE
                    /\ UNCHANGED pipeVars
    /\ UNCHANGED <<settings, fs, put_seq, lastReq, nReq, handled, pollVars>>

\* variant: handled is counted in a finally clause
CountAlways(h, returned) == h + 1

\* handled += 1 only when run_pipeline_for_vod returned (line 720)
CountHandled(h, returned) == IF returned THEN h + 1 ELSE h

\* lines 720-728
WebhookAfterRun ==
    /\ InWebhookLoop
    /\ pc \in {"returned", "raised"}
    /\ handled' = CountHandled(handled, pc = "returned")
    /\ IF settings.run_once /\ handled' >= 1
         THEN /\ pc' = "exited"
              /\ exit' = "ok"
              /\ serverUp' = FALSE
         ELSE /\ pc' = "get"
              /\ UNCHANGED <<exit, serverUp>>
    /\ UNCHANGED <<settings, fs, stateFile, processed, event_queue,
                   put_seq, taken, lastEvent, lastReq, nReq, pollVars>>
    /\ EndRun

(***************************************************************************)
(* Poll mode: wait_for_finished_vod, is_file_stable                        *)
(***************************************************************************)
InPollLoop ==
    settings.explicit_vod_file = NoPath /\ settings.trigger_mode # "webhook"

LocatorPcs == {"scan", "check", "stable_sleep", "cycle_sleep"}

\* list_vod_candidates: sorted(files, key=st_mtime, reverse=True)
RECURSIVE SortNewestFirst(_)
SortNewestFirst(S) ==
    IF S = {} THEN <<>>
    ELSE LET x == newest(S) IN <<x>> \o SortNewestFirst(S \ {x})

list_vod_candidates == SortNewestFirst({e \in Entries : exists(e)})

\* lines 369-375: the three checks a candidate passes before is_file_stable
NotSeen(p, sn) == resolve(p) \notin sn
BigEnough(p) == size_of(p) >= min_bytes
\* variant: no age check
OldEnoughAlways(p) == TRUE
OldEnough(p) == age_of(p) >= stable_for_sec

\* time.sleep(max(1, stable_for_sec // 3))
StableSleep == IF stable_for_sec \div 3 > 1 THEN stable_for_sec \div 3 ELSE 1

\* the locals of wait_for_finished_vod are gone when it is left
LeaveLocator ==
    /\ seen' = {}
    /\ candidates' = <<>>
    /\ size1' = 0
    /\ sleepLeft' = 0

\* an exception leaves wait_for_finished_vod: no run was started
LocatorRaise(exc) ==
    /\ LeaveLocator
    /\ pc' = "raised"
    /\ failure' = exc
    /\ outcome' = "none"
    /\ UNCHANGED <<vod, stagesRun, clips, downloaded, uploaded, elapsed,
                   runStart>>

\* lines 732-733, 357-359
Locate ==
    /\ InPollLoop
    /\ pc = "locate"
    /\ seen' = seen_of(processed)
    /\ pc' = "scan"
    /\ UNCHANGED <<settings, fs, stateFile, processed, exit, pipeVars, hookVars,
                   candidates, size1, sleepLeft>>

\* lines 362-363
Scan ==
    /\ pc = "scan"
    /\ candidates' = list_vod_candidates
    /\ pc' = "check"
    /\ UNCHANGED <<settings, fs, stateFile, processed, exit, pipeVars, hookVars,
                   seen, size1, sleepLeft>>

\* lines 367-376 for the next candidate, up to the first sample of is_file_stable
Check ==
    /\ pc = "check"
    /\ UNCHANGED <<settings, fs, stateFile, processed, exit, hookVars>>
    /\ IF candidates = <<>>
         THEN /\ pc' = "cycle_sleep"
              /\ UNCHANGED <<pollVars, pipeVars>>
         ELSE LET p == Head(candidates) IN
              IF ~NotSeen(p, seen)
                THEN /\ candidates' = Tail(candidates)
                     /\ UNCHANGED <<pc, seen, size1, sleepLeft, pipeVars>>
              ELSE IF ~exists(p)
                THEN LocatorRaise("FileNotFoundError")
              ELSE IF ~BigEnough(p) \/ ~OldEnough(p)
                THEN /\ candidates' = Tail(candidates)
                     /\ UNCHANGED <<pc, seen, size1, sleepLeft, pipeVars>>
              ELSE /\ size1' = size_of(p)
                   /\ sleepLeft' = StableSleep
                   /\ pc' = "stable_sleep"
                   /\ UNCHANGED <<seen, candidates, pipeVars>>

\* lines 352-353 and 376-378: the second sample of is_file_stable
Sample2 ==
    /\ pc = "stable_sleep"
    /\ sleepLeft = 0
    /\ UNCHANGED <<settings, fs, stateFile, processed, exit, hookVars>>
    /\ LET p == Head(candidates) IN
         IF ~exists(p)
           THEN LocatorRaise("FileNotFoundError")
           ELSE IF size1 = size_of(p)
             THEN /\ BeginRun(p)
                  /\ LeaveLocator
             ELSE /\ candidates' = Tail(candidates)
                  /\ size1' = 0
                  /\ pc' = "check"
                  /\ UNCHANGED <<seen, sleepLeft, pipeVars>>

\* lines 379-380
CycleSleep ==
    /\ pc = "cycle_sleep"
    /\ pc' = "scan"
    /\ UNCHANGED <<settings, fs, stateFile, processed, exit, pipeVars, otherVars>>

\* lines 735-740
PollAfterRun ==
    /\ InPollLoop
    /\ pc \in {"returned", "raised"}
    /\ IF settings.run_once
         THEN /\ pc' = "exited"
              /\ exit' = "ok"
         ELSE /\ pc' = "locate"
              /\ UNCHANGED exit
    /\ UNCHANGED <<settings, fs, stateFile, processed, otherVars>>
    /\ EndRun

(***************************************************************************)
(* The environment: the recorder writing files, time, the operator         *)
(***************************************************************************)
Older(a) == IF a < MaxAge THEN a + 1 ELSE a

\* one second passes while the locator runs
Tick ==
    /\ pc \in LocatorPcs
    /\ fs' = [f \in Files |-> [fs[f] EXCEPT !.age = Older(@)]]
    /\ sleepLeft' = IF sleepLeft > 0 THEN sleepLeft - 1 ELSE 0
    /\ UNCHANGED <<settings, stateFile, processed, pc, exit, pipeVars, hookVars,
                   seen, candidates, size1>>

\* the recorder appends to a file
Grow(f) ==
    /\ pc \in LocatorPcs
    /\ fs[f].exists
    /\ fs[f].size < MaxSize
    /\ fs' = [fs EXCEPT ![f] = [exists |-> TRUE, size |-> @.size + 1, age |-> 0]]
    /\ UNCHANGED <<settings, stateFile, processed, pc, exit, pipeVars, otherVars>>

\* a file is removed
Delete(f) ==
    /\ pc \notin {"boot", "exited"}
    /\ fs[f].exists
    /\ fs' = [fs EXCEPT ![f].exists = FALSE]
    /\ UNCHANGED <<settings, stateFile, processed, pc, exit, pipeVars, otherVars>>

(***************************************************************************)
(* Specification                                                           *)
(***************************************************************************)
Setting(mode, once, explicit, valid, token) ==
    [trigger_mode |-> mode, run_once |-> once, explicit_vod_file |-> explicit,
     valid |-> valid, webhook_token |-> token,
     rewrite_from |-> "rec", rewrite_to |-> LocalRoot,
     wait_timeout |-> opus_wait_timeout_sec]

Configs ==
    {Setting("webhook", o, NoPath, TRUE, "good") : o \in BOOLEAN}
    \cup {Setting("webhook", FALSE, NoPath, TRUE, "")}
    \cup {Setting("poll", o, NoPath, TRUE, "") : o \in BOOLEAN}
    \cup {Setting("webhook", TRUE, e, TRUE, "") : e \in {"a", "b"}}
    \cup {Setting("webhook", TRUE, NoPath, FALSE, "")}
    \cup {[Setting("webhook", TRUE, "a", TRUE, "") EXCEPT !.wait_timeout = 0]}

FileStates ==
    [exists : BOOLEAN, size : 0..MaxSize, age : 0..MaxAge]

\* sizes are observed in poll mode only; there "b" is an old recording and "a"
\* is in any state of being written.  In webhook mode "b" is the newer file.
InitFs(s) ==
    IF s.explicit_vod_file = NoPath /\ s.trigger_mode = "poll"
      THEN {g \in [Files -> FileStates] :
              /\ ~g["a"].exists => g["a"].size = 0 /\ g["a"].age = 0
              /\ g["b"].size = MaxSize /\ g["b"].age = MaxAge}
      ELSE IF s.explicit_vod_file = NoPath
        THEN {g \in [Files -> FileStates] :
                /\ \A f \in Files : g[f].size = MaxSize
                /\ g["a"].age = MaxAge /\ g["b"].age = 0}
        ELSE {g \in [Files -> FileStates] :
                \A f \in Files : g[f].size = MaxSize /\ g[f].age = MaxAge}

\* the requests the recorder and other clients send
end_download(direct, basename) == Payload("end_download", direct, basename)
WebhookPayloads ==
    { Payload("start_download", <<>>, "a"),
      end_download(<<RawPath("rec", "b")>>, "a"),
      end_download(<<RawPath("rec", "la"), RawPath("rec", "pl")>>, ""),
      end_download(<<>>, "stem"),
      end_download(<<RawPath("rec", "nul")>>, "") }

\* objects with the right token; a JSON value that is no object; requests
\* without a body, with the right token and without the token header; garbage
\* with a wrong token, on the configured path and on another one
WebhookRequests ==
    {Request(webhook_path, "good", Body("object", o)) : o \in WebhookPayloads}
    \cup { Request(webhook_path, "good", Body("nonobject", EmptyObject)),
           Request(webhook_path, "good", Body("nolength", EmptyObject)),
           Request(webhook_path, "", Body("nolength", EmptyObject)),
           Request(webhook_path, "bad", Body("garbage", EmptyObject)),
           Request("/other", "bad", Body("garbage", EmptyObject)) }

Init ==
    /\ settings \in Configs
    /\ fs \in InitFs(settings)
    /\ stateFile \in StateFiles
    /\ processed = <<>>
    /\ pc = "boot"
    /\ exit = "running"
    /\ vod = NoPath
    /\ stagesRun = {}
    /\ clips = <<>>
    /\ downloaded = <<>>
    /\ uploaded = <<>>
    /\ elapsed = 0
    /\ outcome = "none"
    /\ failure = "none"
    /\ runStart = [processed |-> <<>>, stateFile |-> stateFile]
    /\ event_queue = <<>>
    /\ put_seq = 0
    /\ taken = <<>>
    /\ lastEvent = EmptyObject
    /\ lastReq = NoRequest
    /\ nReq = 0
    /\ serverUp = FALSE
    /\ handled = 0
    /\ seen = {}
    /\ candidates = <<>>
    /\ size1 = 0
    /\ sleepLeft = 0

Next ==
    \/ Start
    \/ ExplicitEnd
    \/ \E req \in WebhookRequests : do_POST(req)
    \/ Dequeue
    \/ WebhookAfterRun
    \/ Locate
    \/ Scan
    \/ Check
    \/ Sample2
    \/ CycleSleep
    \/ PollAfterRun
    \/ PipelineStep
    \/ Tick
    \/ \E f \in Files : Grow(f)
    \/ \E f \in Files : Delete(f)

Spec == Init /\ [][Next]_vars

\* the main thread keeps running while a pipeline run is in progress
FairSpec == Spec /\ WF_vars(PipelineStep)

\* the main thread also keeps running in the webhook loop
LoopFairSpec ==
    Spec /\ WF_vars(PipelineStep) /\ WF_vars(Dequeue) /\ WF_vars(WebhookAfterRun)

(***************************************************************************)
(* Properties                                                              *)
(***************************************************************************)
RunPcs == {"validate", "publish", "submit", "await_poll", "await_sleep",
           "download", "uploader", "upload", "commit"}

\* run_pipeline_for_vod has just ended and main() has not yet gone on
RunEnded == pc \in {"returned", "raised"} /\ outcome # "none"

\* the run was invoked on a path whose canonical form was already processed
InvokedOnProcessed == resolve(vod) \in seen_of(runStart.processed)

LedgerUntouched ==
    processed = runStart.processed /\ stateFile = runStart.stateFile

\* C1 as stated: every run invoked on a path whose canonical form is already in
\* ProcessedSet ends as a benign skip, with no network stage performed and the
\* ProcessedSet unchanged.
C1_AsStated ==
    (RunEnded /\ InvokedOnProcessed)
        => (outcome = "skip" /\ stagesRun \cap NetworkStages = {} /\ LedgerUntouched)

\* C1 amended: a run invoked on a path whose canonical form is already in
\* ProcessedSet performs none of Publish, SubmitClipJob, AwaitClips,
\* DownloadClips, UploadAll and leaves ProcessedSet and the state file unchanged;
\* it ends as a benign skip, or, when the file no longer exists, with
\* FileNotFoundError.
C1_SkipOrMissing ==
    (RunEnded /\ InvokedOnProcessed)
        => /\ stagesRun \cap NetworkStages = {}
           /\ LedgerUntouched
           /\ \/ outcome = "skip"
              \/ outcome = "failed" /\ failure = "FileNotFoundError" /\ ~exists(vod)

\* a second invocation on a path committed by an earlier run of this process
\* ("b" is in no initial state file) ends as a skip
C1_Witness ==
    RunEnded /\ outcome = "skip" /\ resolve(vod) = "b" /\ stagesRun = {}

StageFailures == {"PublishError", "SubmitError", "HTTPError", "TimeoutError",
                  "DownloadError", "AuthError", "UploadError"}

\* C2: when one of the stages Publish .. UploadAll fails, the run ends with the
\* in-memory ProcessedSet and the state file as they were when it was invoked,
\* and the path is still not in ProcessedSet, so a later Validate lets it pass.
C2_FailureLeavesLedger ==
    (RunEnded /\ outcome = "failed" /\ failure \in StageFailures)
        => /\ LedgerUntouched
           /\ ~AlreadyProcessed(vod, processed)
           /\ "Publish" \in stagesRun

\* an upload failed after an earlier upload of the same run had succeeded
C2_Witness ==
    RunEnded /\ failure = "UploadError" /\ Len(uploaded) >= 1

Awaiting == pc \in {"await_poll", "await_sleep"}

\* C3: AwaitClips does not poll forever: the wait is always left, it never goes
\* back to sleep once the elapsed time exceeds opus_wait_timeout_sec, and a run
\* that ends with the timeout error had exceeded the timeout and left
\* ProcessedSet unchanged.
C3_AwaitBounded ==
    /\ Awaiting ~> ~Awaiting
    /\ [](pc = "await_sleep" => ~(elapsed > settings.wait_timeout))
    /\ []((RunEnded /\ failure = "TimeoutError")
            => (elapsed > settings.wait_timeout /\ LedgerUntouched /\ clips = <<>>))

C3_Witness ==
    RunEnded /\ failure = "TimeoutError"

\* C4: when run_pipeline_for_vod returns success after executing the stages, the
\* canonical path is in ProcessedSet and the state file already holds exactly
\* the in-memory list, that path included.
C4_CommittedBeforeReturn ==
    (pc = "returned" /\ outcome = "success")
        => /\ resolve(vod) \in seen_of(processed)
           /\ stateFile.kind = "ok"
           /\ stateFile.files = processed
           /\ resolve(vod) \in seen_of(stateFile.files)

C4_Witness ==
    pc = "returned" /\ outcome = "success" /\ Len(uploaded) >= 1

\* C5: the poll strategy returns no file younger than the stability window,
\* none smaller than the minimum size and none whose canonical path is in
\* ProcessedSet; and is_file_stable is entered for a candidate only when the
\* three checks hold for it.
C5_LocatorChecks ==
    /\ []((InPollLoop /\ pc = "validate")
            => /\ age_of(vod) >= stable_for_sec
               /\ size_of(vod) >= min_bytes
               /\ resolve(vod) \notin seen_of(processed))
    /\ [][(pc = "check" /\ pc' = "stable_sleep")
            => LET p == Head(candidates) IN
               /\ resolve(p) \notin seen_of(processed)
               /\ size_of(p) >= min_bytes
               /\ age_of(p) >= stable_for_sec]_vars

\* the locator returned the link to "a" after a poll cycle in which "b" was skipped
C5_Witness ==
    InPollLoop /\ pc = "validate" /\ vod = "la" /\ exists("b")

\* C6: the loop takes an event off the queue only while no run is in progress,
\* a run is started only by the loop and only from its idle position, a request
\* being served changes neither ProcessedSet nor the run, and ProcessedSet
\* changes only in the main thread's load and commit.
C6_SerialRuns ==
    [][/\ (taken' # taken) => (pc = "get" /\ pc' \in {"get", "validate", "exited"})
       /\ (InWebhookLoop /\ pc' = "validate" /\ pc # "validate")
             => (pc = "get" /\ taken' # taken)
       /\ (nReq' # nReq)
             => UNCHANGED <<processed, stateFile, pc, pipeVars, taken>>
       /\ (processed' # processed) => pc \in {"boot", "commit"}]_vars

\* a run waits in AwaitClips while a second accepted event waits on the queue
C6_Witness ==
    pc = "await_sleep" /\ Len(taken) = 1 /\ Len(event_queue) = 1

\* C7: events leave the queue in the order they were put on it: the ids taken
\* are 1, 2, ... and the queue holds the next ids in order.
C7_Fifo ==
    /\ \A i \in 1..Len(taken) : taken[i] = i
    /\ \A i \in 1..Len(event_queue) : event_queue[i].id = Len(taken) + i
    /\ put_seq = Len(taken) + Len(event_queue)

\* two accepted events have been taken off the queue
C7_Witness ==
    taken = <<1, 2>>

\* C8 as stated: a request that passes the path, token and body checks is put
\* on the queue and answered 200.
C8_AcceptedWhenChecksPass ==
    (nReq > 0 /\ lastReq.path_ok /\ lastReq.token_ok /\ lastReq.parse_ok)
        => (lastReq.status = 200 /\ lastReq.enqueued)

\* C9 as stated: with run_once, the webhook loop terminates after the first run
\* that was invoked, whether it returned or raised.
C9_AsStated ==
    [][(InWebhookLoop /\ settings.run_once /\ pc \in {"returned", "raised"}
          /\ pc' # pc)
         => (pc' = "exited" /\ ~serverUp')]_vars

\* C9 amended: with run_once, the webhook loop terminates, shutting the listener
\* down, after the first run that returned (success or benign skip); after a run
\* that raised it goes back to the queue with the listener up.
C9_ExitAfterReturn ==
    /\ [][(InWebhookLoop /\ settings.run_once /\ pc \in {"returned", "raised"}
             /\ pc' # pc)
            => IF pc = "returned"
                 THEN pc' = "exited" /\ exit' = "ok" /\ ~serverUp'
                 ELSE pc' = "get" /\ serverUp' /\ handled' = 0]_vars
    /\ []((InWebhookLoop /\ pc = "exited") => ~serverUp)
    /\ []((InWebhookLoop /\ settings.run_once /\ pc = "get") => handled = 0)

\* with run_once, the second event taken led to the run after which the loop exited
C9_Witness ==
    /\ InWebhookLoop /\ settings.run_once
    /\ pc = "exited" /\ exit = "ok" /\ handled = 1 /\ Len(taken) = 2

\* C10 as stated: the process terminates abnormally only on configuration-time
\* validation failures, in every mode.
C10_NoCrash ==
    exit # "crashed"

\* what a restart of the process would load from the persisted record
Persisted == seen_of(load_processed(stateFile))

\* C11 as stated: ProcessedSet only grows, in memory and as loaded from the
\* persisted record, and a save leaves the persisted record equal to either the
\* old or the new set, also when it is interrupted.
C11_GrowsAtomically ==
    [][/\ seen_of(processed) \subseteq seen_of(processed')
       /\ Persisted \subseteq Persisted'
       /\ (stateFile' # stateFile) => (stateFile' = save_processed(processed'))]_vars

\* the steps of the queue: a get takes the head, which was never taken before,
\* and removes it; nothing but a request answered 200 adds an event, a new one
DequeuedOnce ==
    [][/\ (taken' # taken)
            => /\ event_queue # <<>>
               /\ Head(event_queue).id \notin seen_of(taken)
               /\ taken' = Append(taken, Head(event_queue).id)
               /\ event_queue' = Tail(event_queue)
       /\ (event_queue' # event_queue /\ taken' = taken)
            => /\ nReq' = nReq + 1
               /\ lastReq'.status = 200
               /\ Len(event_queue') = Len(event_queue) + 1
               /\ SubSeq(event_queue', 1, Len(event_queue)) = event_queue
               /\ event_queue'[Len(event_queue')].id = put_seq + 1]_vars

\* an event that was taken is not on the queue
Discarded ==
    \A i \in 1..Len(event_queue) : event_queue[i].id \notin seen_of(taken)

\* C12 as stated: every event accepted (answered 200) is dequeued by the loop,
\* exactly once, and is never on the queue again.
C12_AsStated ==
    /\ \A i \in 1..MaxEvents : (put_seq >= i) ~> (Len(taken) >= i)
    /\ DequeuedOnce
    /\ []Discarded

\* C12 amended: an accepted event is dequeued at most once and is never on the
\* queue again, whether its resolution found no file or its run failed or
\* succeeded; it is dequeued unless the loop has ended first (run_once exit, or
\* an exception out of the loop).
C12_OnceWhileLoopRuns ==
    /\ \A i \in 1..MaxEvents : (put_seq >= i) ~> (Len(taken) >= i \/ pc = "exited")
    /\ DequeuedOnce
    /\ []Discarded

\* two events were taken, one run returned and the other event led to no run or
\* to a failed one; the loop waits on an empty queue
C12_Witness ==
    /\ InWebhookLoop /\ pc = "get"
    /\ Len(taken) = 2 /\ event_queue = <<>> /\ handled = 1
    /\ lastEvent.action = "end_download"

\* C13 as stated: a POST on the configured path that passes the token check is
\* answered 400, with nothing enqueued, when its body does not parse, and 200,
\* with the payload enqueued, otherwise; it always gets a response, and a
\* payload is on the queue exactly when the response was 200.
C13_EveryRequestAnswered ==
    (nReq > 0 /\ lastReq.path_ok /\ lastReq.token_ok)
        => /\ lastReq.status # 0
           /\ lastReq.status = (IF lastReq.parse_ok THEN 200 ELSE 400)
           /\ lastReq.enqueued <=> (lastReq.status = 200)

\* C14: with a token configured, a request whose token header is missing or
\* different is answered 404 on a path other than the configured one and 401 on
\* the configured path, whatever its body, and enqueues nothing; every step that
\* puts a payload on the queue serves a request with the right path and token.
C14_TokenGuardsQueue ==
    /\ []((nReq > 0 /\ settings.webhook_token # "" /\ ~lastReq.token_ok)
            => /\ ~lastReq.enqueued
               /\ lastReq.status = (IF lastReq.path_ok THEN 401 ELSE 404))
    /\ [][(put_seq' # put_seq \/ Len(event_queue') > Len(event_queue))
            => (lastReq'.path_ok /\ lastReq'.token_ok /\ nReq' = nReq + 1)]_vars

\* a request with a wrong token and a body that is no JSON was answered 401, not
\* 400, and after two requests nothing is on the queue
C14_Witness ==
    /\ settings.webhook_token # "" /\ nReq = 2 /\ put_seq = 0
    /\ lastReq = Served(TRUE, FALSE, FALSE, 401, FALSE)

\* events of other actions that carry paths and a basename which would resolve,
\* or raise, if the resolver looked at them
OtherActionEvents ==
    {Payload(act, d, bn) :
        act \in {"", "start_download"},
        d \in {<<>>, <<RawPath("rec", "b")>>, <<RawPath("rec", "nul")>>},
        bn \in {"", "a"}}

\* C15: for an event whose action is not "end_download" (a missing action
\* included) the resolver returns none whatever the payload's paths and whatever
\* is on disk, and the loop taking such an event starts no run, does not count
\* it as handled and goes on waiting.
C15_OtherActionsIgnored ==
    /\ [](\A p \in OtherActionEvents :
            resolve_vod_from_webhook(settings, p, processed) = NotFound)
    /\ [][(taken' # taken /\ Head(event_queue).payload.action # "end_download")
            => /\ pc' = "get"
               /\ handled' = handled
               /\ UNCHANGED <<pipeVars, fs, processed, stateFile, exit>>]_vars

\* a start_download event whose basename matches an existing file was taken and
\* ignored
C15_Witness ==
    /\ InWebhookLoop /\ pc = "get" /\ Len(taken) = 1 /\ handled = 0
    /\ lastEvent.action = "start_download" /\ exists(lastEvent.basename)

\* an end_download event whose only direct path is name n under the rewrite-from
\* prefix, and what the resolver returns for it
UnderPrefix(n, bn) == end_download(<<RawPath(settings.rewrite_from, n)>>, bn)
ResolvedFor(n, bn) == resolve_vod_from_webhook(settings, UnderPrefix(n, bn), processed)

\* C16 as stated: for an end_download event whose direct path starts with the
\* rewrite-from prefix, the resolver returns the rewritten path (in canonical
\* form) whenever the rewritten path exists on disk.
C16_AsStated ==
    \A n \in Entries \cup {"pl"}, bn \in {"", "a"} :
        exists(n) => ResolvedFor(n, bn) = Found(resolve(n))

\* C16 amended: the resolver returns the canonical form of the rewritten path
\* whenever that path exists as a file with a media extension; a rewritten path
\* that exists with a playlist extension resolves to the largest media file of
\* its directory when there is one, and never to the playlist itself.
C16_RewrittenMediaPath ==
    /\ [](\A n \in Entries, bn \in {"", "a"} :
            exists(n) => ResolvedFor(n, bn) = Found(resolve(n)))
    /\ [](\A bn \in {"", "a"} :
            /\ ResolvedFor("pl", bn) # Found("pl")
            /\ largest_media_in_dir # NoPath
                 => ResolvedFor("pl", bn) = Found(largest_media_in_dir))
    /\ [][(taken' # taken /\ Head(event_queue).payload.action = "end_download"
             /\ Len(Head(event_queue).payload.direct) > 0
             /\ Head(event_queue).payload.direct[1].name \in Entries
             /\ exists(Head(event_queue).payload.direct[1].name))
            => /\ pc' = "validate"
               /\ vod' = resolve(Head(event_queue).payload.direct[1].name)]_vars

\* the event's path, under the recorder's prefix, named the link "la": the run
\* was started on the canonical file under the local prefix
C16_Witness ==
    /\ InWebhookLoop /\ pc = "validate" /\ vod = "a"
    /\ lastEvent.action = "end_download"
    /\ lastEvent.direct[1] = RawPath(settings.rewrite_from, "la")

\* C17 as stated: when the candidate has disappeared by the second size sample
\* of is_file_stable, the locator goes on (next candidate, next poll cycle):
\* the locator call does not fail and the trigger loop does not exit.
C17_DisappearedIsNotReady ==
    [][(pc = "stable_sleep" /\ pc' # pc /\ ~exists(Head(candidates)))
         => (pc' \in LocatorPcs /\ exit' = "running")]_vars

StageOrder == <<"Validate", "Publish", "SubmitClipJob", "AwaitClips",
                "DownloadClips", "UploadAll", "Commit">>

\* the stage a position of run_pipeline_for_vod belongs to, as its place in
\* StageOrder
StageNo(p) ==
    CASE p = "validate" -> 1
      [] p = "publish" -> 2
      [] p = "submit" -> 3
      [] p \in {"await_poll", "await_sleep"} -> 4
      [] p = "download" -> 5
      [] p \in {"uploader", "upload"} -> 6
      [] p = "commit" -> 7
      [] OTHER -> 0

\* C18: within a run the stages occur only in the order Validate, Publish,
\* SubmitClipJob, AwaitClips, DownloadClips, UploadAll, Commit: a run starts in
\* Validate, a stage is entered only from the stage before it, which did not
\* fail, and only if it was not entered before in this run, and a run is left
\* only by returning or raising.
C18_StagesInOrder ==
    /\ [][/\ (pc \in RunPcs /\ pc' \in RunPcs /\ StageNo(pc') # StageNo(pc))
               => /\ StageNo(pc') = StageNo(pc) + 1
                  /\ StageOrder[StageNo(pc')] \notin stagesRun
                  /\ outcome' = "none"
          /\ (pc \notin RunPcs /\ pc' \in RunPcs)
               => (pc' = "validate" /\ stagesRun' = {})
          /\ (pc \in RunPcs /\ pc' \notin RunPcs)
               => pc' \in {"returned", "raised"}]_vars
    /\ [](pc \in RunPcs
            => \A i \in 2..6 :
                 /\ StageOrder[i] \in stagesRun => i <= StageNo(pc)
                 /\ i < StageNo(pc) => StageOrder[i] \in stagesRun)

\* a run has reached Commit after entering each of the five stages before it
C18_Witness ==
    pc = "commit" /\ stagesRun = NetworkStages /\ Len(uploaded) = Len(downloaded)

\* C19 as stated: every upload takes its title, description and hashtags from
\* the clip descriptor its file was downloaded from, also when DownloadClips
\* skipped clips that have no source URL.
C19_TextOfOwnClip ==
    \A i \in 1..Len(uploaded) : uploaded[i].info = uploaded[i].file

\* C20: when the upload of the k-th downloaded file fails, the run ends failed
\* at once, with the uploads of files 1..k-1 as they were made and none for
\* files k onward, with ProcessedSet and the state file untouched; nothing of
\* the run is executed after the failure.
C20_UploadFailureAborts ==
    /\ []((failure = "UploadError")
            => /\ pc \in {"raised", "exited"} /\ outcome = "failed"
               /\ Len(uploaded) < Len(downloaded)
               /\ \A i \in 1..Len(uploaded) : uploaded[i].file = downloaded[i]
               /\ LedgerUntouched
               /\ ~AlreadyProcessed(vod, processed))
    /\ [][/\ (pc = "upload" /\ pc' = "raised")
               => (uploaded' = uploaded /\ failure' = "UploadError")
          /\ (pc = "upload" /\ uploaded' # uploaded)
               => (pc' = "upload" /\ Len(uploaded') = Len(uploaded) + 1
                   /\ SubSeq(uploaded', 1, Len(uploaded)) = uploaded)
          /\ (pc = "raised")
               => (pc' \notin RunPcs
                   /\ (pc' = "raised" => uploaded' = uploaded))]_vars

\* the second of two uploads failed
C20_Witness ==
    /\ pc = "raised" /\ failure = "UploadError"
    /\ Len(downloaded) = 2 /\ Len(uploaded) = 1 /\ uploaded[1].file = 1

\* end_download events none of whose direct paths resolves: no path field, or
\* one that names no file
FallbackEvents ==
    {end_download(d, bn) :
        d \in {<<>>, <<RawPath("rec", "zz")>>},
        bn \in {"", "a", "b", "stem", "zz"}}

\* the media files the basename matches, and those of them not in ProcessedSet
Matches(bn) == {e \in Entries : exists(e) /\ Contains(e, bn)}
UnseenMatches(bn) == {e \in Matches(bn) : resolve(e) \notin seen_of(processed)}

\* r is a most recently modified file of S
NewestOf(r, S) == r.kind = "path" /\ r.path \in S /\ \A o \in S : age_of(r.path) <= age_of(o)

\* C21: when no direct path resolves, the result is a most recently modified
\* file among the basename's matches that are not in ProcessedSet when there is
\* such a match, else among all its matches, and none when nothing matches; the
\* loop taking such an event is, in that same step, waiting again or in Validate
\* on the file so chosen.
C21_BasenameFallback ==
    /\ [](\A p \in FallbackEvents :
            LET r == resolve_vod_from_webhook(settings, p, processed)
                M == Matches(p.basename)
                U == UnseenMatches(p.basename)
            IN IF p.basename = "" \/ M = {} THEN r = NotFound
               ELSE IF U # {} THEN NewestOf(r, U)
               ELSE NewestOf(r, M))
    /\ [][(taken' # taken /\ Head(event_queue).payload \in FallbackEvents)
            => LET bn == Head(event_queue).payload.basename IN
               /\ fs' = fs
               /\ IF Matches(bn) = {} THEN pc' = "get"
                  ELSE /\ pc' = "validate"
                       /\ vod' \in (IF UnseenMatches(bn) # {} THEN UnseenMatches(bn)
                                    ELSE Matches(bn))]_vars

\* the basename matched every file: the run was started on the older file, the
\* newer one being in ProcessedSet
C21_Witness ==
    /\ InWebhookLoop /\ pc = "validate" /\ lastEvent.basename = "stem"
    /\ vod = "la" /\ exists("b") /\ age_of("b") < age_of("la")
    /\ "b" \in seen_of(processed)

\* C22 as stated: whenever run_pipeline_for_vod has ended, by success, skip or
\* failure, the paths in the persisted state file are the paths of the
\* in-memory ProcessedSet.
C22_LedgerInSync ==
    RunEnded => (Persisted = seen_of(processed))

\* the run appended its VOD to the in-memory ProcessedSet
Appended == processed = Append(runStart.processed, resolve(vod))

\* DownloadClips returned, and every file it returned was uploaded
AllUploaded ==
    /\ "UploadAll" \in stagesRun
    /\ Len(uploaded) = Len(downloaded)
    /\ \A i \in 1..Len(uploaded) : uploaded[i].file = downloaded[i]

\* C23 as stated: a run appends the VOD to ProcessedSet if and only if an upload
\* succeeded for every file DownloadClips returned, a run with no file included.
C23_AsStated ==
    RunEnded => (Appended <=> AllUploaded)

\* C23 amended: a run appends the VOD to ProcessedSet if and only if the
\* uploader was initialised and an upload succeeded for every file
\* DownloadClips returned; a run with no file commits with zero uploads when the
\* uploader initialises and appends nothing when it does not.
C23_CommitIffUploaderAndAllUploaded ==
    RunEnded
        => /\ Appended <=> (AllUploaded /\ failure # "AuthError")
           /\ (processed # runStart.processed) => Appended
           /\ (downloaded = <<>> /\ "UploadAll" \in stagesRun)
                => (Appended <=> failure # "AuthError")

\* every ready clip lacked a source URL: the run succeeded and recorded the VOD
\* with zero uploads
C23_Witness ==
    /\ pc = "returned" /\ outcome = "success"
    /\ Len(clips) >= 1 /\ downloaded = <<>> /\ uploaded = <<>>
    /\ resolve(vod) \in seen_of(processed)

\* C24: the timeout of wait_exportable_clips is taken only in a poll that
\* returned an empty list and found the elapsed time above the timeout; the wait
\* is entered at a poll and left only by a poll, so at least one poll is issued,
\* also with timeout 0; a poll issued after the elapsed time has exceeded the
\* timeout is the last one; and a poll that returns clips leads to DownloadClips
\* whatever the elapsed time.
C24_TimeoutAfterEmptyPoll ==
    [][/\ (failure' = "TimeoutError" /\ failure # "TimeoutError")
            => /\ pc = "await_poll" /\ pc' = "raised"
               /\ clips' = <<>>
               /\ elapsed' > settings.wait_timeout
       /\ (~Awaiting /\ Awaiting') => (pc' = "await_poll" /\ elapsed' = 0)
       /\ (Awaiting /\ ~Awaiting')
            => (pc = "await_poll" /\ "AwaitClips" \in stagesRun')
       /\ (pc = "await_poll" /\ pc' # pc /\ elapsed > settings.wait_timeout)
            => pc' \in {"download", "raised"}
       /\ (pc = "await_poll" /\ clips' # <<>>)
            => (pc' = "download" /\ outcome' = "none" /\ failure' = "none")
       /\ (pc = "await_poll" /\ pc' = "await_sleep")
            => ~(elapsed' > settings.wait_timeout)]_vars

\* with timeout 0, a poll issued after the timeout had elapsed returned clips
C24_Witness ==
    /\ pc = "download" /\ settings.wait_timeout = 0
    /\ elapsed > settings.wait_timeout /\ clips # <<>>

NoDuplicates(list) ==
    \A i, j \in 1..Len(list) : i # j => list[i] # list[j]

\* C25: the list loaded at startup having no duplicates, processed_files never
\* has one: a run past Validate is on a path whose canonical form is not in the
\* list, and the only change of the list after startup is the append, at
\* Commit, of that canonical form.
C25_NoDuplicates ==
    /\ [](NoDuplicates(load_processed(stateFile)) /\ NoDuplicates(processed))
    /\ [](pc \in RunPcs \ {"validate"} => resolve(vod) \notin seen_of(processed))
    /\ [][(processed' # processed /\ pc # "boot")
            => /\ pc = "commit"
               /\ resolve(vod) \notin seen_of(processed)
               /\ processed' = Append(processed, resolve(vod))]_vars

\* after the commit of a second path, a run on a link to the first one was
\* skipped
C25_Witness ==
    /\ pc = "returned" /\ outcome = "skip" /\ vod = "la"
    /\ processed = <<"a", "b">>

\* a POST on the configured path that carries no body
Bodiless(token) == Request(webhook_path, token, Body("nolength", EmptyObject))

\* the event with id i is an empty object waiting on the queue
EmptyQueued(i) ==
    \E k \in 1..Len(event_queue) :
        event_queue[k].id = i /\ event_queue[k].payload = EmptyObject

\* a bodiless request that passes the token check is answered 200 and its
\* payload is the empty object; the loop taking an empty object starts no run,
\* counts nothing and goes on waiting
BodilessAccepted ==
    /\ [](\A token \in {"good", "bad", ""} :
            TokenOk(settings, Bodiless(token))
                => /\ StatusOf(settings, Bodiless(token)) = 200
                   /\ ParseBody(Bodiless(token).body).obj = EmptyObject)
    /\ [][(taken' # taken /\ Head(event_queue).payload = EmptyObject)
            => /\ pc' = "get"
               /\ handled' = handled
               /\ UNCHANGED <<pipeVars, processed, stateFile, exit, serverUp>>]_vars

\* C26 as stated: a bodiless POST that passes the token check is answered 200,
\* an empty object is enqueued, and the loop later dequeues it and ignores it
\* without starting a run.
C26_AsStated ==
    /\ BodilessAccepted
    /\ \A i \in 1..MaxEvents : EmptyQueued(i) ~> (Len(taken) >= i)

\* C26 amended: a bodiless POST that passes the token check is answered 200 and
\* an empty object is enqueued; the loop, unless it has ended first, later
\* dequeues it and ignores it without starting a run.
C26_BodilessIgnored ==
    /\ BodilessAccepted
    /\ \A i \in 1..MaxEvents : EmptyQueued(i) ~> (Len(taken) >= i \/ pc = "exited")

\* with a token configured, an empty object was accepted, taken and ignored
C26_Witness ==
    /\ InWebhookLoop /\ settings.webhook_token # "" /\ pc = "get"
    /\ Len(taken) = 1 /\ lastEvent = EmptyObject /\ handled = 0
    /\ lastReq = Served(TRUE, TRUE, TRUE, 200, TRUE)

====
